---- MODULE Spec2Model ----
(***************************************************************************)
(* Model of the Rosa chain-of-thought filter (src/main.py).                *)
(*                                                                         *)
(* A text is a sequence of characters.  An ASCII character is written as   *)
(* itself (":", "<", " ", "\n"), a CJK character by its pinyin ("nei" is   *)
(* U+5185), the full-width colon U+FF1A as "fwcolon".  The three regular   *)
(* expressions of RosaCoTFilter, str.strip, str.replace and str.join are   *)
(* modelled character by character.  re.IGNORECASE has no effect on the    *)
(* patterns: none of their characters is cased.                            *)
(*                                                                         *)
(* Every text-to-text step is defined through the sequence of the indices  *)
(* of its argument that it keeps (SomethingKept), so that the origin of    *)
(* every character of the reply can be followed back to the model output.  *)
(***************************************************************************)
EXTENDS Integers, Sequences, FiniteSets, TLC

(***************************************************************************)
(* Generic sequence helpers                                                *)
(***************************************************************************)
Min(S) == CHOOSE x \in S : \A y \in S : x <= y

Max(S) == CHOOSE x \in S : \A y \in S : x >= y

Range(s) == {s[k] : k \in 1..Len(s)}

\* The indices a..b, in order (empty when b < a).
Interval(a, b) ==
    LET n == IF b >= a THEN b - a + 1 ELSE 0
    IN  SubSeq([k \in 1..n |-> a + k - 1], 1, n)

\* The characters of s at the indices idx, in the order of idx.
Pick(s, idx) == SubSeq([k \in 1..Len(idx) |-> s[idx[k]]], 1, Len(idx))

\* w occurs in t starting at index i.
StartsAt(t, i, w) ==
    /\ i >= 1
    /\ i + Len(w) - 1 <= Len(t)
    /\ \A k \in 1..Len(w) : t[i + k - 1] = w[k]

(***************************************************************************)
(* Character classes                                                       *)
(***************************************************************************)
\* Whitespace: what \s matches and what str.strip() removes.
WS == {" ", "\n", "\t"}

\* The character class [: U+FF1A] of both patterns.
Colons == {":", "fwcolon"}

\* str.strip(): the indices between the first and the last non-blank.
StripKept(s) ==
    LET nb == {k \in 1..Len(s) : s[k] \notin WS}
    IN  IF nb = {} THEN << >> ELSE Interval(Min(nb), Max(nb))

Strip(s) == Pick(s, StripKept(s))

\* "\n".join(frags)
RECURSIVE JoinFrom(_, _)
JoinFrom(frags, k) ==
    IF k > Len(frags) THEN << >>
    ELSE IF k = Len(frags) THEN frags[k]
    ELSE frags[k] \o <<"\n">> \o JoinFrom(frags, k + 1)

Join(frags) == JoinFrom(frags, 1)

(***************************************************************************)
(* FINAL_REPLY_PATTERN: (?:luo sha de)? zui zhong yan yu [: fwcolon]? \s*  *)
(***************************************************************************)
\* U+7F57 U+838E U+7684, the optional prefix of the marker.
RosaPrefix == <<"luo", "sha", "de">>

\* U+6700 U+7EC8 U+8A00 U+8BED, the marker phrase.
FinalWords == <<"zui", "zhong", "yan", "yu">>

\* The first index at or after i that holds no whitespace (a greedy \s*).
SkipWs(t, i) ==
    LET nb == {j \in i..Len(t) : t[j] \notin WS}
    IN  IF nb = {} THEN Len(t) + 1 ELSE Min(nb)

\* The index just after the match of the marker pattern that starts at i,
\* or 0 when the pattern does not match at i.  Every part after the phrase
\* is optional and greedy, so a match never backtracks.
FinalReplyMatchEnd(t, i) ==
    LET c == IF StartsAt(t, i, RosaPrefix \o FinalWords)
                 THEN i + Len(RosaPrefix) + Len(FinalWords)
             ELSE IF StartsAt(t, i, FinalWords) THEN i + Len(FinalWords)
             ELSE 0
    IN  IF c = 0 THEN 0
        ELSE SkipWs(t, IF c <= Len(t) /\ t[c] \in Colons THEN c + 1 ELSE c)

\* A plausible slip: the split is made at the last match (rsplit).
FinalReplySearchLast(t) ==
    LET S == {i \in 1..Len(t) : FinalReplyMatchEnd(t, i) # 0}
    IN  IF S = {} THEN 0 ELSE Max(S)

\* Start of the leftmost match of the marker pattern, 0 when there is none.
FinalReplySearch(t) ==
    LET S == {i \in 1..Len(t) : FinalReplyMatchEnd(t, i) # 0}
    IN  IF S = {} THEN 0 ELSE Min(S)

\* The indices of t that follow the first marker match.
FinalReplyAfterKept(t) ==
    Interval(FinalReplyMatchEnd(t, FinalReplySearch(t)), Len(t))

\* FINAL_REPLY_PATTERN.split(t, 1)
FinalReplySplit(t) ==
    LET s == FinalReplySearch(t)
    IN  IF s = 0 THEN <<t>>
        ELSE <<SubSeq(t, 1, s - 1), Pick(t, FinalReplyAfterKept(t))>>

(***************************************************************************)
(* THOUGHT_TAG_PATTERN: <(?P<tag>A|B|C)>(?P<content>.*?)</(?P=tag)>,       *)
(* DOTALL                                                                  *)
(***************************************************************************)
\* The tag names, in the order of the alternation.
TagNames ==
    << <<"nei", "xin", "du", "bai">>,
       <<"wu", "sheng", "de", "guan", "cha">>,
       <<"yi", "shi", "liu", "dong">> >>

OpenTag(n) == <<"<">> \o n \o <<">">>

CloseTag(n) == <<"<", "/">> \o n \o <<">">>

NoMatch == [start |-> 0, cstart |-> 0, cend |-> 0, end |-> 0]

\* A plausible slip: the closing tag may carry any of the names (no
\* back-reference).
TagMatchAtAnyClose(t, i) ==
    LET ns == {k \in 1..Len(TagNames) : StartsAt(t, i, OpenTag(TagNames[k]))}
    IN  IF ns = {} THEN NoMatch
        ELSE LET k  == CHOOSE k \in ns : TRUE
                 cs == i + Len(OpenTag(TagNames[k]))
                 js == {j \in cs..Len(t) :
                          \E c \in 1..Len(TagNames) :
                              StartsAt(t, j, CloseTag(TagNames[c]))}
             IN  IF js = {} THEN NoMatch
                 ELSE LET j == Min(js)
                          c == CHOOSE c \in 1..Len(TagNames) :
                                   StartsAt(t, j, CloseTag(TagNames[c]))
                      IN  [start |-> i, cstart |-> cs, cend |-> j,
                           end |-> j + Len(CloseTag(TagNames[c]))]

\* The match of the tag pattern that starts at i: the opening tag at i, the
\* shortest content (.*? crosses newlines), the first closing tag of the
\* same name.  start/end bound the block and cstart/cend the content, ends
\* exclusive; NoMatch when there is none.
TagMatchAt(t, i) ==
    LET ns == {k \in 1..Len(TagNames) : StartsAt(t, i, OpenTag(TagNames[k]))}
    IN  IF ns = {} THEN NoMatch
        ELSE LET k  == CHOOSE k \in ns : TRUE
                 cs == i + Len(OpenTag(TagNames[k]))
                 js == {j \in cs..Len(t) : StartsAt(t, j, CloseTag(TagNames[k]))}
             IN  IF js = {} THEN NoMatch
                 ELSE [start |-> i, cstart |-> cs, cend |-> Min(js),
                       end |-> Min(js) + Len(CloseTag(TagNames[k]))]

\* THOUGHT_TAG_PATTERN.finditer(t), scanning from pos: the non-overlapping
\* matches from left to right.
RECURSIVE TagScan(_, _)
TagScan(t, pos) ==
    IF pos > Len(t) THEN << >>
    ELSE LET m == TagMatchAt(t, pos)
         IN  IF m.start = 0 THEN TagScan(t, pos + 1)
             ELSE <<m>> \o TagScan(t, m.end)

TagFindIter(t) == TagScan(t, 1)

\* THOUGHT_TAG_PATTERN.search(s) is not None
TagSearch(s) == TagFindIter(s) # << >>

\* A plausible slip: the substitution stops at the end of the content and
\* leaves the closing tag.
TagKeptLeavesClose(t) ==
    LET ms == TagFindIter(t)
        Outside(p) == \A k \in 1..Len(ms) : ~(ms[k].start <= p /\ p < ms[k].cend)
    IN  SelectSeq(Interval(1, Len(t)), Outside)

\* The indices of t outside every matched block.
TagKept(t) ==
    LET ms == TagFindIter(t)
        Outside(p) == \A k \in 1..Len(ms) : ~(ms[k].start <= p /\ p < ms[k].end)
    IN  SelectSeq(Interval(1, Len(t)), Outside)

\* THOUGHT_TAG_PATTERN.sub("", t)
TagSub(t) == Pick(t, TagKept(t))

(***************************************************************************)
(* UNBOUND_THINKING_PATTERN: si suo [: fwcolon] \s* .*   (DOTALL)          *)
(***************************************************************************)
\* U+601D U+7D22, the label that introduces untagged deliberation.
ThinkWords == <<"si", "suo">>

UnboundMatchAt(t, i) ==
    /\ StartsAt(t, i, ThinkWords)
    /\ i + Len(ThinkWords) <= Len(t)
    /\ t[i + Len(ThinkWords)] \in Colons

\* UNBOUND_THINKING_PATTERN.finditer(t), scanning from pos.  With DOTALL the
\* greedy .* runs to the end of the text, so a match ends at Len(t) + 1.
RECURSIVE UnboundScan(_, _)
UnboundScan(t, pos) ==
    IF pos > Len(t) THEN << >>
    ELSE IF UnboundMatchAt(t, pos)
         THEN <<[start |-> pos, end |-> Len(t) + 1]>> \o UnboundScan(t, Len(t) + 1)
         ELSE UnboundScan(t, pos + 1)

UnboundFindIter(t) == UnboundScan(t, 1)

\* The indices of t outside every match of the unbound pattern.
UnboundKept(t) ==
    LET ms == UnboundFindIter(t)
        Outside(p) == \A k \in 1..Len(ms) : ~(ms[k].start <= p /\ p < ms[k].end)
    IN  SelectSeq(Interval(1, Len(t)), Outside)

\* UNBOUND_THINKING_PATTERN.sub("", t)
UnboundSub(t) == Pick(t, UnboundKept(t))

(***************************************************************************)
(* FILTERED_KEYWORDS and filter_keywords                                   *)
(***************************************************************************)
FILTERED_KEYWORDS ==
    << <<"e", ".", ".", ".">>,
       <<"na", "ge", ".", ".", ".">>,
       <<"en", ".", ".", ".">>,
       <<"zhe", "ge", "ma", ".", ".", ".">>,
       <<"wo4", "cao2">>,
       <<"niu", "bi">>,
       <<"wo3", "cao4">> >>

\* The indices of s that s.replace(kw, "") keeps, scanning from pos: the
\* occurrences of kw are taken from left to right without overlap, in a
\* single pass.
RECURSIVE ReplaceKeptFrom(_, _, _)
ReplaceKeptFrom(s, kw, pos) ==
    IF pos > Len(s) THEN << >>
    ELSE IF StartsAt(s, pos, kw) THEN ReplaceKeptFrom(s, kw, pos + Len(kw))
    ELSE <<pos>> \o ReplaceKeptFrom(s, kw, pos + 1)

ReplaceKept(s, kw) == ReplaceKeptFrom(s, kw, 1)

\* s.replace(kw, "")
Replace(s, kw) == Pick(s, ReplaceKept(s, kw))

\* The loop of filter_keywords from the k-th keyword on, as the indices of
\* text that the remaining passes keep.
RECURSIVE FilterKeptFrom(_, _)
FilterKeptFrom(text, k) ==
    IF k > Len(FILTERED_KEYWORDS) THEN Interval(1, Len(text))
    ELSE LET kept == ReplaceKept(text, FILTERED_KEYWORDS[k])
         IN  Pick(kept, FilterKeptFrom(Pick(text, kept), k + 1))

FilterKept(text) == FilterKeptFrom(text, 1)

\* filter_keywords(text)
filter_keywords(text) == Pick(text, FilterKept(text))

(***************************************************************************)
(* log_thought                                                             *)
(***************************************************************************)
\* What the file system does to one log_thought call: all goes well, or
\* os.makedirs, open or f.write raises.
FsOutcomes == {"ok", "makedirs_raises", "open_raises", "write_raises"}

\* The line that opens a log entry; the timestamp is one token.
LogHeader ==
    <<"[%Y-%m-%d %H:%M:%S]", " ", "-", "-", "-", " ",
      "luo", "sha", "de", "nei", "xin", "du", "bai",
      " ", "-", "-", "-", "\n">>

\* A plausible slip: no try/except around the write, the error escapes.
log_thought_uncaught(content, fs) ==
    IF content = << >> THEN [appended |-> << >>, errors |-> 0, raised |-> FALSE]
    ELSE IF fs = "ok"
         THEN [appended |-> <<LogHeader \o content \o <<"\n", "\n">>>>,
               errors |-> 0, raised |-> FALSE]
         ELSE [appended |-> << >>, errors |-> 0, raised |-> TRUE]

\* log_thought(content) under the file system outcome fs: the entries it
\* appends to the day's log file, the number of logger.error reports, and
\* whether an exception leaves the function.
log_thought(content, fs) ==
    IF content = << >> THEN [appended |-> << >>, errors |-> 0, raised |-> FALSE]
    ELSE IF fs = "ok"
         THEN [appended |-> <<LogHeader \o content \o <<"\n", "\n">>>>,
               errors |-> 0, raised |-> FALSE]
         ELSE [appended |-> << >>, errors |-> 1, raised |-> FALSE]

(***************************************************************************)
(* process_llm_response, step by step                                      *)
(***************************************************************************)
\* A plausible slip: only an absent response or an absent text returns early.
IsNoOpNoneOnly(resp) == resp.is_none \/ resp.text_is_none

\* not response or not response.completion_text
IsNoOp(resp) == resp.is_none \/ resp.text_is_none \/ resp.completion_text = << >>

\* The tag loop: the trimmed content of every matched block, in order.
TagThoughts(t) ==
    LET ms == TagFindIter(t)
    IN  SubSeq([k \in 1..Len(ms) |->
                    Strip(SubSeq(t, ms[k].cstart, ms[k].cend - 1))], 1, Len(ms))

\* The unbound matches on the original text that the check of the second
\* loop lets through: those whose matched text holds no tagged block.
UnboundRetained(t) ==
    LET NoBlockInside(m) == ~TagSearch(SubSeq(t, m.start, m.end - 1))
    IN  SelectSeq(UnboundFindIter(t), NoBlockInside)

\* The second loop: the trimmed text of every retained unbound match.
UnboundThoughts(t) ==
    LET ms == UnboundRetained(t)
    IN  SubSeq([k \in 1..Len(ms) |->
                    Strip(SubSeq(t, ms[k].start, ms[k].end - 1))], 1, Len(ms))

\* The indices of t left by the two substitutions: the tag pattern on
\* the original text, then the unbound pattern on the result.
CleanedKept(t) == Pick(TagKept(t), UnboundKept(TagSub(t)))

\* Strategy 1 succeeded: parts is the two-element result of the split.
\* reply_src gives, for every character of reply_part, its index in t.
MarkerSegment(t, parts) ==
    [path |-> "marker",
     thoughts_found |-> << >>,
     thought_part |-> Strip(parts[1]),
     reply_part |-> Strip(parts[2]),
     reply_src |-> Pick(FinalReplyAfterKept(t), StripKept(parts[2]))]

\* Strategies 2 and 3 found the fragments found (not empty); kept are the
\* indices of t that the two substitutions leave.
TagSegment(t, found, kept) ==
    [path |-> "tags",
     thoughts_found |-> found,
     thought_part |-> Join(found),
     reply_part |-> Strip(Pick(t, kept)),
     reply_src |-> Pick(kept, StripKept(Pick(t, kept)))]

\* Nothing was found: the whole text is the reply.
FallbackSegment(t) ==
    [path |-> "fallback",
     thoughts_found |-> << >>,
     thought_part |-> << >>,
     reply_part |-> Strip(t),
     reply_src |-> StripKept(t)]

\* The else branch of strategy 1, given the fragments of the two loops.
TagOrFallback(t, found) ==
    IF found # << >> THEN TagSegment(t, found, CleanedKept(t))
    ELSE FallbackSegment(t)

\* The if of strategy 1, given the result of the split.
SegmentParts(t, parts) ==
    IF Len(parts) > 1 THEN MarkerSegment(t, parts)
    ELSE TagOrFallback(t, TagThoughts(t) \o UnboundThoughts(t))

\* Segmentation (strategies 1 to 3).
Segment(t) == SegmentParts(t, FinalReplySplit(t))

\* A plausible slip: the thought is logged only when it is displayed.
LoggedContentsDebugOnly(display, thought) ==
    IF display /\ thought # << >> THEN <<thought>> ELSE << >>

\* The contents handed to log_thought by one invocation.
LoggedContents(display, thought) ==
    IF thought # << >> THEN <<thought>> ELSE << >>

\* U+3010 mu hou de si xu U+3011, then a newline.
DebugHeader == <<"U+3010", "mu", "hou", "de", "si", "xu", "U+3011", "\n">>

DebugSeparator == <<"\n", "\n", "-", "-", "-", "\n", "\n">>

\* A plausible slip: the debug format is chosen by the flag alone.
AssembleFlagOnly(display, thought, reply) ==
    IF display THEN DebugHeader \o thought \o DebugSeparator \o reply ELSE reply

\* The text written back to response.completion_text.
Assemble(display, thought, reply) ==
    IF display /\ thought # << >>
    THEN DebugHeader \o thought \o DebugSeparator \o reply
    ELSE reply

\* The handler has returned early.
NoOpRun(resp) ==
    [path |-> "noop", thoughts_found |-> << >>, thought_part |-> << >>,
     reply_part |-> << >>, speech |-> << >>, speech_src |-> << >>,
     log_calls |-> << >>, log_file |-> << >>, log_errors |-> 0,
     raised |-> FALSE, response |-> resp]

\* log_thought raised: the handler is left before the keyword filter and
\* before the response is written.
RaisedRun(resp, seg, calls) ==
    [path |-> seg.path, thoughts_found |-> seg.thoughts_found,
     thought_part |-> seg.thought_part, reply_part |-> seg.reply_part,
     speech |-> << >>, speech_src |-> << >>,
     log_calls |-> calls, log_file |-> << >>, log_errors |-> 0,
     raised |-> TRUE, response |-> resp]

\* The keyword filter and the assembly, after the log step lg; kept are the
\* indices of reply_part that filter_keywords keeps.
ReturnedRun(resp, display, seg, calls, lg, kept) ==
    [path |-> seg.path, thoughts_found |-> seg.thoughts_found,
     thought_part |-> seg.thought_part, reply_part |-> seg.reply_part,
     speech |-> Pick(seg.reply_part, kept),
     speech_src |-> Pick(seg.reply_src, kept),
     log_calls |-> calls, log_file |-> lg.appended, log_errors |-> lg.errors,
     raised |-> FALSE,
     response |-> [resp EXCEPT !.completion_text =
                      Assemble(display, seg.thought_part, Pick(seg.reply_part, kept))]]

\* The steps after the log step lg; kept are the indices of reply_part
\* that filter_keywords keeps.
AfterLog(resp, display, seg, calls, lg, kept) ==
    IF lg.raised THEN RaisedRun(resp, seg, calls)
    ELSE ReturnedRun(resp, display, seg, calls, lg, kept)

\* The log step, given the contents to hand to log_thought.
LogStep(resp, display, fs, seg, calls, kept) ==
    AfterLog(resp, display, seg, calls,
             IF calls = << >>
             THEN [appended |-> << >>, errors |-> 0, raised |-> FALSE]
             ELSE log_thought(calls[1], fs),
             kept)

\* The steps after the segmentation seg.
AfterSegment(resp, display, fs, seg, kept) ==
    LogStep(resp, display, fs, seg, LoggedContents(display, seg.thought_part), kept)

\* One whole invocation, given the segmentation seg of the text of resp and
\* the indices kept of seg.reply_part that filter_keywords keeps.
RunWith(resp, display, fs, seg, kept) ==
    IF IsNoOp(resp) THEN NoOpRun(resp)
    ELSE AfterSegment(resp, display, fs, seg, kept)

\* The segmentation and the keyword filter of one invocation; neither
\* depends on the file system.
RunSegment(resp) == Segment(resp.completion_text)

\* One whole invocation on the response resp with the flag display, the
\* file system behaving as fs: every local of the handler and its effects.
Run(resp, display, fs) ==
    RunWith(resp, display, fs, RunSegment(resp), FilterKept(RunSegment(resp).reply_part))

(***************************************************************************)
(* The state machine                                                       *)
(*                                                                         *)
(* The provider produces a completion text piece by piece; the framework   *)
(* then calls process_llm_response on the response, once.                  *)
(***************************************************************************)
VARIABLES
    display_cot_text,  \* self.display_cot_text, read once in __init__
    emitted,           \* the pieces the provider has produced for this event
    response,          \* the LLMResponse handed to the handler
    stage,             \* "generating" before the handler runs, "done" after
    entry,             \* the response as it was when the handler was entered
    call               \* the locals and the effects of the handler's run

vars == <<display_cot_text, emitted, response, stage, entry, call>>

\* The parts of the handler's run.
path == call.path                      \* the branch taken

thoughts_found == call.thoughts_found  \* the local thoughts_found

thought_part == call.thought_part      \* the local thought_part

reply_part == call.reply_part          \* reply_part before filter_keywords

speech == call.speech                  \* reply_part after filter_keywords

speech_src == call.speech_src          \* the input index of each speech character

log_calls == call.log_calls            \* the contents handed to log_thought

log_file == call.log_file              \* the entries appended to the log file

log_errors == call.log_errors          \* the logger.error reports

raised == call.raised                  \* an exception left the handler

\* The longest completion text, in pieces.
MaxPieces == 4

\* The pieces a completion text is made of.
PieceText(p) ==
    CASE p = "prefix" -> RosaPrefix
      [] p = "marker" -> FinalWords
      [] p = "colon"  -> <<":">>
      [] p = "space"  -> <<" ">>
      [] p = "a"      -> <<"a">>
      [] p = "open1"  -> OpenTag(TagNames[1])
      [] p = "close1" -> CloseTag(TagNames[1])
      [] p = "open3"  -> OpenTag(TagNames[3])
      [] p = "close3" -> CloseTag(TagNames[3])
      [] p = "think"  -> ThinkWords \o <<":">>
      [] p = "wo4"    -> <<"wo4">>
      [] p = "cao2"   -> <<"cao2">>
      [] p = "niubi"  -> FILTERED_KEYWORDS[6]

\* A completion text draws its pieces from one of these families: marker
\* texts, tagged and unbound texts, texts with redacted keywords.
Families ==
    { {"prefix", "marker", "colon", "space", "a", "open1", "close1"},
      {"open1", "close1", "open3", "close3", "think", "a", "space"},
      {"wo4", "cao2", "niubi", "marker", "think"} }

AllPieces == UNION Families

EmptyResponse == [is_none |-> FALSE, text_is_none |-> FALSE, completion_text |-> << >>]

\* No handler has run yet for this event.
NoCall ==
    [path |-> "none", thoughts_found |-> << >>, thought_part |-> << >>,
     reply_part |-> << >>, speech |-> << >>, speech_src |-> << >>,
     log_calls |-> << >>, log_file |-> << >>, log_errors |-> 0,
     raised |-> FALSE, response |-> EmptyResponse]

Init ==
    /\ display_cot_text \in BOOLEAN
    /\ emitted = << >>
    /\ response = EmptyResponse
    /\ stage = "generating"
    /\ entry = EmptyResponse
    /\ call = NoCall

\* The provider appends the piece p to the completion text.
Generate(p) ==
    /\ stage = "generating"
    /\ ~response.is_none
    /\ ~response.text_is_none
    /\ Len(emitted) < MaxPieces
    /\ \E F \in Families : Range(emitted) \cup {p} \subseteq F
    /\ emitted' = Append(emitted, p)
    /\ response' = [response EXCEPT !.completion_text = @ \o PieceText(p)]
    /\ UNCHANGED <<display_cot_text, stage, entry, call>>

\* The event carries no response object, or a response without a text.
Absent(no_object) ==
    /\ stage = "generating"
    /\ emitted = << >>
    /\ ~response.is_none
    /\ ~response.text_is_none
    /\ response' = [is_none |-> no_object, text_is_none |-> ~no_object,
                    completion_text |-> << >>]
    /\ UNCHANGED <<display_cot_text, emitted, stage, entry, call>>

\* The framework calls the handler; the file system behaves in one of the
\* ways of FsOutcomes (the segmentation does not depend on it).
process_llm_response ==
    /\ stage = "generating"
    /\ \E seg \in {RunSegment(response)} :
         \E kept \in {FilterKept(seg.reply_part)} :
           \E fs \in FsOutcomes :
               call' = RunWith(response, display_cot_text, fs, seg, kept)
    /\ response' = call'.response
    /\ entry' = response
    /\ stage' = "done"
    /\ UNCHANGED <<display_cot_text, emitted>>

\* The next response event of the same plugin instance begins.
NextEvent ==
    /\ stage = "done"
    /\ emitted' = << >>
    /\ response' = EmptyResponse
    /\ stage' = "generating"
    /\ entry' = EmptyResponse
    /\ call' = NoCall
    /\ UNCHANGED display_cot_text

Next ==
    \/ \E p \in AllPieces : Generate(p)
    \/ \E no_object \in BOOLEAN : Absent(no_object)
    \/ process_llm_response
    \/ NextEvent

Spec == Init /\ [][Next]_vars

(***************************************************************************)
(* Vocabulary of the properties                                            *)
(***************************************************************************)
\* The handler has run on the response entry.
Done == stage = "done"

\* The handler has run and did not return early.
Ran == Done /\ ~(entry.is_none \/ entry.text_is_none \/ entry.completion_text = << >>)

\* The text the handler was given.
Text == entry.completion_text

\* w occurs somewhere in t.
Contains(t, w) == \E i \in 1..(Len(t) + 1) : StartsAt(t, i, w)

\* The marker phrase, with or without its prefix, starts at i.
MarkerAt(t, i) ==
    StartsAt(t, i, FinalWords) \/ StartsAt(t, i, RosaPrefix \o FinalWords)

MarkerStarts(t) == {i \in 1..Len(t) : MarkerAt(t, i)}

\* The label of the unbound pattern, with its colon, starts at i.
UnboundAt(t, i) ==
    \E c \in Colons : StartsAt(t, i, ThinkWords \o <<c>>)

\* A well-formed tagged block: the opening tag of the n-th name at i, its
\* closing tag at j, and no closing tag of that name in the content.
Block(t, n, i, j) ==
    /\ StartsAt(t, i, OpenTag(TagNames[n]))
    /\ j >= i + Len(OpenTag(TagNames[n]))
    /\ StartsAt(t, j, CloseTag(TagNames[n]))
    /\ \A k \in (i + Len(OpenTag(TagNames[n])))..(j - 1) :
           ~StartsAt(t, k, CloseTag(TagNames[n]))

\* Where the opening and the closing tag of the n-th name start in t.
OpenStarts(t, n) == {i \in 1..Len(t) : StartsAt(t, i, OpenTag(TagNames[n]))}

CloseStarts(t, n) == {j \in 1..Len(t) : StartsAt(t, j, CloseTag(TagNames[n]))}

\* The well-formed tagged blocks of t, as <<name, start, start of close>>.
Blocks(t) ==
    UNION {UNION {{<<n, i, j>> : j \in {c \in CloseStarts(t, n) : Block(t, n, i, c)}} :
                      i \in OpenStarts(t, n)} :
               n \in 1..Len(TagNames)}

BlockFirst(b) == b[2]

BlockLast(b) == b[3] + Len(CloseTag(TagNames[b[1]])) - 1

BlockContent(t, b) == SubSeq(t, b[2] + Len(OpenTag(TagNames[b[1]])), b[3] - 1)

\* The input indices of the characters of the delivered speech text.
SpeechPositions == Range(speech_src)

\* The input indices of the characters of Strip(SubSeq(t, a, b)).
TrimmedPositions(t, a, b) == {a - 1 + k : k \in Range(StripKept(SubSeq(t, a, b)))}

(***************************************************************************)
(* C1.  When the marker pattern matches, the text is split at the first    *)
(* match only: thought_part is the trimmed text before the start of the    *)
(* first match, reply_part (before redaction) the trimmed text after its   *)
(* end; a later marker stays in the speech text; strategies 2 and 3 do not *)
(* run, so a tagged block before the marker is in thought_part with its    *)
(* tags.                                                                   *)
(***************************************************************************)
C1_FirstMarkerSplit ==
    (Ran /\ MarkerStarts(Text) # {}) =>
        LET i == Min(MarkerStarts(Text))
            e == FinalReplyMatchEnd(Text, i)
        IN  /\ path = "marker"
            /\ thoughts_found = << >>
            /\ thought_part = Strip(SubSeq(Text, 1, i - 1))
            /\ reply_part = Strip(SubSeq(Text, e, Len(Text)))
            /\ (\E j \in MarkerStarts(Text) : j >= e) =>
                   Contains(reply_part, FinalWords) /\ Contains(speech, FinalWords)
            /\ \A b \in Blocks(Text) :
                   BlockLast(b) < i =>
                       Contains(thought_part,
                                SubSeq(Text, BlockFirst(b), BlockLast(b)))

\* A text with two markers and a tagged block before the first was split.
C1_Witness ==
    /\ Ran
    /\ Cardinality(MarkerStarts(Text)) >= 2
    /\ \E b \in Blocks(Text) : BlockLast(b) < Min(MarkerStarts(Text))
    /\ Contains(speech, FinalWords)

(***************************************************************************)
(* C2, as stated.  For every input that contains a well-formed tagged      *)
(* block, no character of the block is in the speech text and the trimmed  *)
(* content is in thought_part.                                             *)
(***************************************************************************)
C2_AsStated ==
    Ran =>
        \A b \in Blocks(Text) :
            /\ SpeechPositions \cap (BlockFirst(b)..BlockLast(b)) = {}
            /\ Contains(thought_part, Strip(BlockContent(Text, b)))

\* An earlier-starting well-formed block reaches into the block b.
Overlapped(t, b) ==
    \E c \in Blocks(t) : BlockFirst(c) < BlockFirst(b) /\ BlockLast(c) >= BlockFirst(b)

(***************************************************************************)
(* C2, amended.  When the marker pattern does not match, every well-formed *)
(* tagged block that no earlier-starting well-formed block overlaps is     *)
(* removed in full from the speech text, and its trimmed content is one of *)
(* the fragments joined into thought_part.                                 *)
(***************************************************************************)
C2_BlockRemoved ==
    (Ran /\ MarkerStarts(Text) = {}) =>
        \A b \in Blocks(Text) :
            ~Overlapped(Text, b) =>
                /\ path = "tags"
                /\ SpeechPositions \cap (BlockFirst(b)..BlockLast(b)) = {}
                /\ Strip(BlockContent(Text, b)) \in Range(thoughts_found)
                /\ Contains(thought_part, Strip(BlockContent(Text, b)))

\* A block with content was extracted and text outside it was delivered.
C2_Witness ==
    /\ Ran
    /\ MarkerStarts(Text) = {}
    /\ \E b \in Blocks(Text) :
           ~Overlapped(Text, b) /\ Strip(BlockContent(Text, b)) # << >>
    /\ speech # << >>

(***************************************************************************)
(* C3.  The redacted speech text holds no configured keyword, so a second  *)
(* application of filter_keywords leaves it unchanged.                     *)
(***************************************************************************)
C3_RedactionIdempotent ==
    Ran =>
        /\ \A k \in 1..Len(FILTERED_KEYWORDS) : ~Contains(speech, FILTERED_KEYWORDS[k])
        /\ filter_keywords(speech) = speech

(***************************************************************************)
(* C4.  One invocation hands thought_part to log_thought exactly once when *)
(* it is not empty and never when it is empty, whatever the display mode   *)
(* and the number of fragments; the content is the whole thought_part, not *)
(* redacted, and a successful write appends exactly one entry holding it.  *)
(***************************************************************************)
C4_LoggedOnce ==
    Ran =>
        /\ thought_part # << >> => log_calls = <<thought_part>>
        /\ thought_part = << >> => log_calls = << >>
        /\ path = "tags" => thought_part = Join(thoughts_found)
        /\ Len(log_file) <= 1
        /\ log_file # << >> =>
               log_file[1] = LogHeader \o thought_part \o <<"\n", "\n">>

\* In normal mode, two fragments were logged as one entry.
C4_Witness ==
    /\ Ran
    /\ ~display_cot_text
    /\ Len(thoughts_found) >= 2
    /\ Len(log_calls) = 1
    /\ Len(log_file) = 1

(***************************************************************************)
(* C5.  When the marker phrase is absent and the text holds no tagged      *)
(* block and no unbound label (mismatched and unterminated tags included), *)
(* thought_part is empty, nothing is extracted or logged, and reply_part   *)
(* (before redaction) is the trimmed input.                                *)
(***************************************************************************)
C5_SpeechFallback ==
    (/\ Ran
     /\ MarkerStarts(Text) = {}
     /\ \A n \in 1..Len(TagNames) :
            \A i \in OpenStarts(Text, n), j \in CloseStarts(Text, n) :
                j < i + Len(OpenTag(TagNames[n]))
     /\ \A i \in 1..Len(Text) : ~UnboundAt(Text, i)) =>
        /\ path = "fallback"
        /\ thoughts_found = << >>
        /\ thought_part = << >>
        /\ log_calls = << >>
        /\ reply_part = Strip(Text)
        /\ response.completion_text = filter_keywords(Strip(Text))

\* A text whose only tags have mismatched names fell through to speech.
C5_Witness ==
    /\ Ran
    /\ path = "fallback"
    /\ \E i, j \in 1..Len(Text) :
           /\ i < j
           /\ StartsAt(Text, i, OpenTag(TagNames[1]))
           /\ StartsAt(Text, j, CloseTag(TagNames[3]))
    /\ reply_part = Text

(***************************************************************************)
(* C6.  With no response object, no text or an empty text the handler is a *)
(* no-op: the response is left as it was, no segmentation or redaction     *)
(* runs and nothing is logged.                                             *)
(***************************************************************************)
C6_NoOp ==
    (Done /\ (entry.is_none \/ entry.text_is_none \/ entry.completion_text = << >>)) =>
        /\ response = entry
        /\ path = "noop"
        /\ thoughts_found = << >>
        /\ log_calls = << >>
        /\ log_file = << >>
        /\ log_errors = 0
        /\ ~raised

\* The handler has run on an event without a text.
C6_Witness == Done /\ entry.text_is_none /\ response = entry

(***************************************************************************)
(* C7.  The text written back is the header, thought_part (not redacted),  *)
(* the separator and the redacted reply when the display flag is set and   *)
(* thought_part is not empty, and the redacted reply alone otherwise.      *)
(***************************************************************************)
C7_Assembly ==
    Ran =>
        /\ speech = filter_keywords(reply_part)
        /\ (display_cot_text /\ thought_part # << >>) =>
               response.completion_text =
                   DebugHeader \o thought_part \o DebugSeparator \o speech
        /\ ~(display_cot_text /\ thought_part # << >>) =>
               response.completion_text = speech

\* In debug mode a thought holding a keyword was shown as it is, while the
\* keyword was removed from the reply.
C7_Witness ==
    /\ Ran
    /\ display_cot_text
    /\ \E k \in 1..Len(FILTERED_KEYWORDS) :
           /\ Contains(thought_part, FILTERED_KEYWORDS[k])
           /\ Contains(reply_part, FILTERED_KEYWORDS[k])
           /\ Contains(response.completion_text, FILTERED_KEYWORDS[k])
    /\ speech # reply_part

(***************************************************************************)
(* C8.  When the write of the log entry fails, no exception leaves the     *)
(* handler, the failure is reported once, and the response text is the one *)
(* a successful write would have given.                                    *)
(***************************************************************************)
C8_LogFailureContained ==
    (Ran /\ log_calls # << >> /\ log_file = << >>) =>
        /\ ~raised
        /\ log_errors = 1
        /\ response.completion_text =
               Run(entry, display_cot_text, "ok").response.completion_text
        /\ response.completion_text = Assemble(display_cot_text, thought_part, speech)

\* A write failed and the response was still rewritten.
C8_Witness ==
    /\ Ran
    /\ log_errors = 1
    /\ response # entry

\* The input indices of the characters of the recorded fragments, when
\* strategies 2 and 3 ran.
RecordedPositions(t) ==
    UNION ({TrimmedPositions(t, m.cstart, m.cend - 1) : m \in Range(TagFindIter(t))}
           \cup {TrimmedPositions(t, m.start, m.end - 1) : m \in Range(UnboundRetained(t))})

(***************************************************************************)
(* C9.  On the tag/unbound path no character of a fragment recorded in     *)
(* thought_part survives in the speech text.                               *)
(***************************************************************************)
C9_ThoughtNotInSpeech ==
    (Ran /\ path = "tags") =>
        SpeechPositions \cap RecordedPositions(Text) = {}

\* The unbound match m lies within a block matched by the tag pattern.
InsideTagBlock(t, m) ==
    \E b \in Range(TagFindIter(t)) : b.start <= m.start /\ m.end <= b.end

(***************************************************************************)
(* C10.  An unbound match on the original text is discarded exactly when   *)
(* its span lies within a tagged block of strategy 2; a retained span is   *)
(* appended, trimmed, to the fragments and removed from the speech text; a *)
(* discarded span is not recorded again.                                   *)
(***************************************************************************)
C10_DuplicateCheck ==
    (Ran /\ path # "marker") =>
        \A m \in Range(UnboundFindIter(Text)) :
            IF InsideTagBlock(Text, m)
            THEN thoughts_found = TagThoughts(Text)
            ELSE /\ thoughts_found =
                        Append(TagThoughts(Text), Strip(SubSeq(Text, m.start, m.end - 1)))
                 /\ SpeechPositions \cap (m.start..(m.end - 1)) = {}

====
